---- MODULE Spec2Model ----
(***************************************************************************)
(* Model of Module_01/v1/app.py: a Flask service that is a facade over a   *)
(* Redis store.  Routes: "/" (hello), "/health" (health), "/keys" (keys,   *)
(* GET and POST) and "/key/<key_name>" (get_key).                          *)
(*                                                                         *)
(* Every handler issues at most one command to the store and the service   *)
(* keeps no state of its own, so a handler is one atomic step taken at the *)
(* moment its store command is executed.  A request is first sent (it is   *)
(* then in flight beside the requests of other callers) and later served.  *)
(***************************************************************************)
EXTENDS Naturals, Sequences, FiniteSets

\* Bounds of the model.
NumCallers == 2     \* callers that may have a request in flight at once
MaxInt == 1         \* JSON integers 0..MaxInt are drawn as field values

Callers == 1..NumCallers

VARIABLES
    store,      \* the Redis keyspace: a function from the keys present to strings
    storeUp,    \* whether the store can be reached
    pc,         \* per caller: "idle", "pending" (request in flight) or "done"
    req,        \* per caller: the request last sent
    resp,       \* per caller: the response to it (meaningful when done)
    calls,      \* per caller: the store commands the handler issued for it
    written,    \* history: per key, the body value of the last SET that succeeded, and its caller
    servedUp,   \* history: per caller, whether the store was reachable when its handler ran
    overlap     \* history: per caller, the callers whose request was in flight with its own

vars == <<store, storeUp, pc, req, resp, calls, written, servedUp, overlap>>

---------------------------------------------------------------------------
\* JSON / Python values.  One record shape for all of them, told apart by t.

Absent == [t |-> "absent", s |-> "", n |-> 0]    \* the field is not in the body
None == [t |-> "null", s |-> "", n |-> 0]        \* JSON null, Python None
Str(s) == [t |-> "str", s |-> s, n |-> 0]
Int(n) == [t |-> "int", s |-> "", n |-> n]
Bool(b) == [t |-> "bool", s |-> "", n |-> IF b THEN 1 ELSE 0]

\* dict.get(field): None when the field is absent
DictGet(data, field) == IF data[field] = Absent THEN None ELSE data[field]

\* Python truth value, as tested by `if key and value`
Truthy(v) ==
    CASE v.t = "str" -> v.s # ""
      [] v.t = "int" -> v.n # 0
      [] v.t = "bool" -> v.n = 1
      [] OTHER -> FALSE

Digit(d) ==
    CASE d = 0 -> "0" [] d = 1 -> "1" [] d = 2 -> "2" [] d = 3 -> "3"
      [] d = 4 -> "4" [] d = 5 -> "5" [] d = 6 -> "6" [] d = 7 -> "7"
      [] d = 8 -> "8" [] d = 9 -> "9"

RECURSIVE IntRepr(_)
IntRepr(n) == IF n < 10 THEN Digit(n) ELSE IntRepr(n \div 10) \o Digit(n % 10)

\* What the Redis client sends for an argument: a str as it is, an int as its
\* decimal text; a bool, None (or any other type) is refused with DataError.
\* With decode_responses=True the store's reply is decoded back to the same str.
EncodeRepr(v) ==
    CASE v.t = "str" -> [ok |-> TRUE, s |-> "'" \o v.s \o "'"]
      [] v.t = "int" -> [ok |-> TRUE, s |-> IntRepr(v.n)]
      [] OTHER -> [ok |-> FALSE, s |-> ""]

Encode(v) ==
    CASE v.t = "str" -> [ok |-> TRUE, s |-> v.s]
      [] v.t = "int" -> [ok |-> TRUE, s |-> IntRepr(v.n)]
      [] OTHER -> [ok |-> FALSE, s |-> ""]

FormatRepr(v) ==
    CASE v.t = "str" -> "'" \o v.s \o "'"
      [] v.t = "int" -> IntRepr(v.n)
      [] v.t = "bool" -> IF v.n = 1 THEN "True" ELSE "False"
      [] OTHER -> "None"

\* str(v) as an f-string formats it
Format(v) ==
    CASE v.t = "str" -> v.s
      [] v.t = "int" -> IntRepr(v.n)
      [] v.t = "bool" -> IF v.n = 1 THEN "True" ELSE "False"
      [] OTHER -> "None"

---------------------------------------------------------------------------
\* Requests and responses.

KeyNames == {"a", "b"}
KeyFields == {Absent, None, Str("")} \cup {Str(k) : k \in KeyNames}
ValueFields ==
    {Absent, None, Str(""), Str("x"), Str("y"), Bool(TRUE), Bool(FALSE)}
        \cup {Int(n) : n \in 0..MaxInt}

NoBody == [kind |-> "none", key |-> Absent, value |-> Absent]
\* request.json: an object, JSON of another type, or text that is not JSON
Bodies ==
    [kind : {"object"}, key : KeyFields, value : ValueFields]
        \cup [kind : {"nonobject", "malformed"}, key : {Absent}, value : {Absent}]

Request(route, method, arg, body) ==
    [route |-> route, method |-> method, arg |-> arg, body |-> body]

Requests ==
    {Request("/", "GET", "", NoBody), Request("/health", "GET", "", NoBody),
     Request("/keys", "GET", "", NoBody)}
        \cup {Request("/keys", "POST", "", b) : b \in Bodies}
        \cup {Request("/key", "GET", k, NoBody) : k \in KeyNames}

\* The requests drawn when several callers are in flight together
ConcRequests ==
    {Request("/keys", "POST", "", [kind |-> "object", key |-> Str(k), value |-> Str(v)]) :
        k \in KeyNames, v \in {"x", "y", "z"}}

NoRequest == Request("", "", "", NoBody)
NoResponse == [status |-> 0, body |-> [none |-> ""]]

Response(status, body) == [status |-> status, body |-> body]

\* The fixed HTML fragment of hello(); its text (a greeting in Arabic) is abridged.
Greeting == [html |-> "<h1>...</h1>"]
HealthPayload == [status |-> "healthy", service |-> "flask-app"]
InternalServerError == Response(500, [error |-> "Internal Server Error"])
BadRequest == Response(400, [error |-> "Bad Request"])

Command(op, key, val) == [op |-> op, key |-> key, val |-> val]

\* The orders in which KEYS may list the keys present
OrdersPattern(S) ==
    {q \in UNION {[1..n -> S \cap {"a"}] : n \in {Cardinality(S \cap {"a"})}} :
        \A i, j \in DOMAIN q : i # j => q[i] # q[j]}

Orders(S) ==
    {q \in UNION {[1..n -> S] : n \in {Cardinality(S)}} :
        \A i, j \in DOMAIN q : i # j => q[i] # q[j]}

---------------------------------------------------------------------------
\* The store's commands.

RedisSetNX(st, k, v) ==
    IF k \in DOMAIN st THEN st
    ELSE [x \in DOMAIN st \cup {k} |-> IF x = k THEN v ELSE st[x]]

RedisSet(st, k, v) == [x \in DOMAIN st \cup {k} |-> IF x = k THEN v ELSE st[x]]

RedisGetBlank(st, k) == IF k \in DOMAIN st THEN Str(st[k]) ELSE Str("")

RedisGet(st, k) == IF k \in DOMAIN st THEN Str(st[k]) ELSE None

---------------------------------------------------------------------------
Init ==
    /\ store = <<>>
    /\ storeUp = TRUE
    /\ pc = [c \in Callers |-> "idle"]
    /\ req = [c \in Callers |-> NoRequest]
    /\ resp = [c \in Callers |-> NoResponse]
    /\ calls = [c \in Callers |-> <<>>]
    /\ written = <<>>
    /\ servedUp = [c \in Callers |-> TRUE]
    /\ overlap = [c \in Callers |-> {}]

\* A caller sends a request; it stays in flight until its handler runs.
Send(c, R) ==
    /\ pc[c] # "pending"
    /\ \E r \in R : req' = [req EXCEPT ![c] = r]
    /\ pc' = [pc EXCEPT ![c] = "pending"]
    /\ resp' = [resp EXCEPT ![c] = NoResponse]
    /\ calls' = [calls EXCEPT ![c] = <<>>]
    /\ overlap' = [d \in Callers |->
            IF d = c THEN {e \in Callers \ {c} : pc[e] = "pending"}
            ELSE IF pc[d] = "pending" THEN overlap[d] \cup {c}
            ELSE overlap[d]]
    /\ UNCHANGED <<store, storeUp, written, servedUp>>

\* The handler's return (or the exception it raised), and the commands it issued.
Reply(c, r, cmds) ==
    /\ pc' = [pc EXCEPT ![c] = "done"]
    /\ resp' = [resp EXCEPT ![c] = r]
    /\ calls' = [calls EXCEPT ![c] = cmds]
    /\ servedUp' = [servedUp EXCEPT ![c] = storeUp]
    /\ UNCHANGED <<req, storeUp, overlap>>

\* @app.route('/')
hello(c) ==
    /\ pc[c] = "pending" /\ req[c].route = "/"
    /\ Reply(c, Response(200, Greeting), <<>>)
    /\ UNCHANGED <<store, written>>

healthCoupled(c) ==
    /\ pc[c] = "pending" /\ req[c].route = "/health"
    /\ IF storeUp
       THEN Reply(c, Response(200, HealthPayload), <<Command("PING", "", "")>>)
       ELSE Reply(c, InternalServerError, <<Command("PING", "", "")>>)
    /\ UNCHANGED <<store, written>>

\* @app.route('/health')
health(c) ==
    /\ pc[c] = "pending" /\ req[c].route = "/health"
    /\ Reply(c, Response(200, HealthPayload), <<>>)
    /\ UNCHANGED <<store, written>>

\* keys(): redis_client.set(key, value) and the success message
SetPath(c, key, value) ==
    LET k == Encode(key)
        v == Encode(value)
    IN  IF ~(k.ok /\ v.ok)
        THEN /\ Reply(c, InternalServerError, <<>>)
             /\ UNCHANGED <<store, written>>
        ELSE IF ~storeUp
        THEN /\ Reply(c, InternalServerError, <<Command("SET", k.s, v.s)>>)
             /\ UNCHANGED <<store, written>>
        ELSE /\ store' = RedisSet(store, k.s, v.s)
             /\ written' = [x \in DOMAIN written \cup {Format(key)} |->
                    IF x = Format(key) THEN [val |-> value, by |-> c] ELSE written[x]]
             /\ Reply(c, Response(200,
                    [message |-> "Key " \o Format(key) \o " set successfully"]),
                    <<Command("SET", k.s, v.s)>>)

ListPathSwallow(c) ==
    /\ IF ~storeUp
       THEN Reply(c, Response(200, [keys |-> <<>>]), <<Command("KEYS", "*", "")>>)
       ELSE \E q \in Orders(DOMAIN store) :
                Reply(c, Response(200, [keys |-> q]), <<Command("KEYS", "*", "")>>)
    /\ UNCHANGED <<store, written>>

\* keys(): redis_client.keys('*') and the listing
ListPath(c) ==
    /\ IF ~storeUp
       THEN Reply(c, InternalServerError, <<Command("KEYS", "*", "")>>)
       ELSE \E q \in Orders(DOMAIN store) :
                Reply(c, Response(200, [keys |-> q]), <<Command("KEYS", "*", "")>>)
    /\ UNCHANGED <<store, written>>

keysStrict(c) ==
    /\ pc[c] = "pending" /\ req[c].route = "/keys"
    /\ LET data == req[c].body
           key == DictGet(data, "key")
           value == DictGet(data, "value")
       IN  IF req[c].method = "POST"
           THEN IF data.kind = "malformed"
                THEN Reply(c, BadRequest, <<>>) /\ UNCHANGED <<store, written>>
                ELSE IF data.kind # "object"
                THEN Reply(c, InternalServerError, <<>>) /\ UNCHANGED <<store, written>>
                ELSE IF Truthy(key) /\ Truthy(value)
                THEN SetPath(c, key, value)
                ELSE Reply(c, BadRequest, <<>>) /\ UNCHANGED <<store, written>>
           ELSE ListPath(c)

\* @app.route('/keys', methods=['GET', 'POST'])
keys(c) ==
    /\ pc[c] = "pending" /\ req[c].route = "/keys"
    /\ LET data == req[c].body
           key == DictGet(data, "key")
           value == DictGet(data, "value")
       IN  IF req[c].method = "POST"
           THEN IF data.kind = "malformed"
                THEN Reply(c, BadRequest, <<>>) /\ UNCHANGED <<store, written>>
                ELSE IF data.kind # "object"
                THEN Reply(c, InternalServerError, <<>>) /\ UNCHANGED <<store, written>>
                ELSE IF Truthy(key) /\ Truthy(value)
                THEN SetPath(c, key, value)
                ELSE ListPath(c)
           ELSE ListPath(c)

get_keyDel(c) ==
    /\ pc[c] = "pending" /\ req[c].route = "/key"
    /\ LET key_name == req[c].arg
       IN  IF ~storeUp
           THEN /\ Reply(c, InternalServerError, <<Command("GETDEL", key_name, "")>>)
                /\ UNCHANGED store
           ELSE /\ Reply(c, Response(200, [key |-> key_name, value |-> RedisGet(store, key_name)]),
                         <<Command("GETDEL", key_name, "")>>)
                /\ store' = [x \in DOMAIN store \ {key_name} |-> store[x]]
    /\ UNCHANGED written

\* @app.route('/key/<key_name>')
get_key(c) ==
    /\ pc[c] = "pending" /\ req[c].route = "/key"
    /\ LET key_name == req[c].arg
       IN  IF ~storeUp
           THEN Reply(c, InternalServerError, <<Command("GET", key_name, "")>>)
           ELSE Reply(c, Response(200, [key |-> key_name, value |-> RedisGet(store, key_name)]),
                      <<Command("GET", key_name, "")>>)
    /\ UNCHANGED <<store, written>>

\* The store becomes unreachable, or reachable again; its contents stay.
StoreFail ==
    /\ storeUp /\ storeUp' = FALSE
    /\ UNCHANGED <<store, pc, req, resp, calls, written, servedUp, overlap>>

StoreRecover ==
    /\ ~storeUp /\ storeUp' = TRUE
    /\ UNCHANGED <<store, pc, req, resp, calls, written, servedUp, overlap>>

\* One request in flight at a time, drawn from every kind of request.
Next ==
    \/ Send(1, Requests)
    \/ hello(1)
    \/ health(1)
    \/ keys(1)
    \/ get_key(1)
    \/ StoreFail
    \/ StoreRecover

Spec == Init /\ [][Next]_vars

\* Several callers, each writing once, their requests in flight together.  The
\* store starts with whatever earlier writes (by a caller numbered 0) left in it.
Stores == UNION {[S -> {"x", "y", "z"}] : S \in SUBSET KeyNames}

InitConc ==
    /\ store \in Stores
    /\ written = [k \in DOMAIN store |-> [val |-> Str(store[k]), by |-> 0]]
    /\ storeUp = TRUE
    /\ pc = [c \in Callers |-> "idle"]
    /\ req = [c \in Callers |-> NoRequest]
    /\ resp = [c \in Callers |-> NoResponse]
    /\ calls = [c \in Callers |-> <<>>]
    /\ servedUp = [c \in Callers |-> TRUE]
    /\ overlap = [c \in Callers |-> {}]

SendSet == \E c \in Callers : pc[c] = "idle" /\ Send(c, ConcRequests)
ServeSet == \E c \in Callers : keys(c)

NextConc == SendSet \/ ServeSet \/ StoreFail \/ StoreRecover

SpecConc == InitConc /\ [][NextConc]_vars

---------------------------------------------------------------------------
\* Properties.

Range(q) == {q[i] : i \in DOMAIN q}

\* the step in which caller c's handler runs
Served(c) == pc[c] = "pending" /\ pc'[c] = "done"

\* caller c has its response
Done(c, route, method) ==
    pc[c] = "done" /\ req[c].route = route /\ req[c].method = method

\* a field that is a non-empty string
NonEmptyStr(v) == v.t = "str" /\ v.s # ""

\* c's request is a POST of a JSON object to /keys
PostsObject(c) ==
    req[c].route = "/keys" /\ req[c].method = "POST" /\ req[c].body.kind = "object"

\* C1: a GetKey that returns a payload for a key whose last successful SetKey
\* carried the string value v returns {key, value: v}: the value comes back
\* unchanged.
C1_RoundTrip ==
    \A c \in Callers :
        (/\ Done(c, "/key", "GET")
         /\ resp[c].status = 200
         /\ req[c].arg \in DOMAIN written
         /\ written[req[c].arg].val.t = "str")
        => resp[c].body = [key |-> req[c].arg, value |-> written[req[c].arg].val]

C1_Witness ==
    \E c \in Callers :
        /\ Done(c, "/key", "GET")
        /\ req[c].arg = "a"
        /\ "a" \in DOMAIN written
        /\ written["a"].val = Str("y")
        /\ resp[c] = Response(200, [key |-> "a", value |-> Str("y")])

\* C2: a SetKey whose body has no value field is answered with a 4xx status.
C2_MissingValueIs4xx ==
    \A c \in Callers :
        (pc[c] = "done" /\ PostsObject(c) /\ req[c].body.value = Absent)
        => resp[c].status \in 400..499

\* C3: with the store reachable, GetKey answers 200 with {key, value} whether or
\* not the key exists, and for a key never written the value is null.
C3_MissingKeyIsNull ==
    \A c \in Callers :
        (Done(c, "/key", "GET") /\ servedUp[c])
        => /\ resp[c].status = 200
           /\ resp[c].body.key = req[c].arg
           /\ req[c].arg \notin DOMAIN written => resp[c].body.value = None

C3_Witness ==
    \E c \in Callers :
        /\ Done(c, "/key", "GET")
        /\ servedUp[c]
        /\ req[c].arg = "b"
        /\ DOMAIN written = {"a"}
        /\ resp[c] = Response(200, [key |-> "b", value |-> None])

\* C4: when two callers have each set the same key to a different value, both
\* calls have succeeded and no other caller has written the key since, the store
\* holds one of the two values for it.
C4_LastWriteWins ==
    \A c1, c2 \in Callers :
        (/\ c1 # c2
         /\ pc[c1] = "done" /\ pc[c2] = "done"
         /\ PostsObject(c1) /\ PostsObject(c2)
         /\ resp[c1].status = 200 /\ resp[c2].status = 200
         /\ req[c1].body.key = req[c2].body.key
         /\ req[c1].body.value # req[c2].body.value
         /\ written[req[c1].body.key.s].by \in {c1, c2})
        => LET k == req[c1].body.key.s
           IN  /\ k \in DOMAIN store
               /\ store[k] \in {req[c1].body.value.s, req[c2].body.value.s}

C4_Witness ==
    \E c1, c2 \in Callers :
        /\ c1 # c2
        /\ pc[c1] = "done" /\ pc[c2] = "done"
        /\ c2 \in overlap[c1]
        /\ resp[c1].status = 200 /\ resp[c2].status = 200
        /\ req[c1].body.key = Str("a") /\ req[c2].body.key = Str("a")
        /\ req[c1].body.value = Str("x") /\ req[c2].body.value = Str("y")
        /\ written["a"].by = c1
        /\ store["a"] = "x"

\* C5: HealthCheck answers 200 with the fixed payload and issues no store
\* command, whether or not the store was reachable when it ran.
C5_HealthFixed ==
    \A c \in Callers :
        Done(c, "/health", "GET")
        => resp[c] = Response(200, HealthPayload) /\ calls[c] = <<>>

C5_Witness ==
    \E c \in Callers :
        /\ Done(c, "/health", "GET")
        /\ ~servedUp[c]
        /\ resp[c] = Response(200, HealthPayload)

\* C6: a ListKeys that returns a listing lists every key set before it.
C6_ListContainsSet ==
    \A c \in Callers :
        (Done(c, "/keys", "GET") /\ resp[c].status = 200)
        => DOMAIN written \subseteq Range(resp[c].body.keys)

C6_Witness ==
    \E c \in Callers :
        /\ Done(c, "/keys", "GET")
        /\ DOMAIN written = {"a", "b"}
        /\ resp[c] = Response(200, [keys |-> <<"b", "a">>])

\* C7: a ListKeys served while the store is unreachable issues its one KEYS
\* command, once, and answers with a 5xx status.
C7_ListFailsWhenDown ==
    \A c \in Callers :
        (Done(c, "/keys", "GET") /\ ~servedUp[c])
        => /\ resp[c].status \in 500..599
           /\ calls[c] = <<Command("KEYS", "*", "")>>

C7_Witness ==
    \E c \in Callers :
        /\ Done(c, "/keys", "GET")
        /\ ~servedUp[c]
        /\ DOMAIN store # {}
        /\ resp[c].status = 500

\* C8: with the store reachable, a SetKey whose key and value are non-empty
\* strings issues exactly SET(key, value), answers "Key <key> set successfully",
\* leaves the key holding the new value and every other key as it was.
C8_SetKeyFrame ==
    [][\A c \in Callers :
        (/\ Served(c) /\ PostsObject(c) /\ storeUp
         /\ NonEmptyStr(req[c].body.key) /\ NonEmptyStr(req[c].body.value))
        => LET k == req[c].body.key.s
               v == req[c].body.value.s
           IN  /\ calls'[c] = <<Command("SET", k, v)>>
               /\ resp'[c] = Response(200, [message |-> "Key " \o k \o " set successfully"])
               /\ DOMAIN store' = DOMAIN store \cup {k}
               /\ store'[k] = v
               /\ \A x \in DOMAIN store \ {k} : store'[x] = store[x]]_vars

C8_Witness ==
    \E c \in Callers :
        /\ pc[c] = "done" /\ PostsObject(c)
        /\ req[c].body.key = Str("a") /\ req[c].body.value = Str("y")
        /\ resp[c] = Response(200, [message |-> "Key a set successfully"])
        /\ calls[c] = <<Command("SET", "a", "y")>>
        /\ store = [x \in {"a", "b"} |-> IF x = "a" THEN "y" ELSE "x"]

\* C9: no step removes a key from the store, and the only step that changes the
\* store is a SetKey whose key and value are both given.
C9_OnlySetKeyWrites ==
    [][/\ DOMAIN store \subseteq DOMAIN store'
       /\ store' # store =>
            \E c \in Callers :
                /\ Served(c) /\ PostsObject(c)
                /\ Truthy(DictGet(req[c].body, "key"))
                /\ Truthy(DictGet(req[c].body, "value"))]_vars

C9_Witness ==
    \E c \in Callers :
        /\ Done(c, "/key", "GET")
        /\ resp[c].status = 200
        /\ DOMAIN store = {"a", "b"}

\* C10: a POST to /keys whose JSON object lacks key or value, or gives an empty
\* one, issues no SET and leaves the store unchanged; it issues KEYS('*') and is
\* answered as a GET of /keys is in that state: 200 with a listing of the keys
\* present when the store is reachable (the 500 of a failed listing otherwise).
C10_FallThrough ==
    [][\A c \in Callers :
        (/\ Served(c) /\ PostsObject(c)
         /\ ~(Truthy(DictGet(req[c].body, "key")) /\ Truthy(DictGet(req[c].body, "value"))))
        => /\ store' = store
           /\ calls'[c] = <<Command("KEYS", "*", "")>>
           /\ storeUp => /\ resp'[c].status = 200
                         /\ resp'[c].body \in {[keys |-> q] : q \in Orders(DOMAIN store)}
           /\ ~storeUp => resp'[c] = InternalServerError]_vars

C10_Witness ==
    \E c \in Callers :
        /\ pc[c] = "done" /\ PostsObject(c) /\ servedUp[c]
        /\ req[c].body.key = Str("a") /\ req[c].body.value = Absent
        /\ DOMAIN store = {"a", "b"}
        /\ resp[c] = Response(200, [keys |-> <<"a", "b">>])

====
